---- MODULE Spec2Model ----
(***************************************************************************)
(* IntensitySegments (intensity_segments.py): a piecewise-constant         *)
(* intensity function over the integers, stored as a list of breakpoints   *)
(* [start, intensity] kept sorted by start.                                *)
(*                                                                         *)
(* A breakpoint is the pair <<start, intensity>>; bp[1] is Python's bp[0]  *)
(* and bp[2] is Python's bp[1].  List indices are kept 0-based as in the   *)
(* source, so the Python read segments[i] is written segs[i + 1].          *)
(***************************************************************************)
EXTENDS Integers, Sequences, FiniteSets

\* Bounds of the model: call arguments are drawn from 0..MaxPoint and
\* -MaxAmount..MaxAmount, and a call is only taken when every stored
\* intensity stays within -MaxIntensity..MaxIntensity (Python integers are
\* unbounded).
MaxPoint == 3
MaxAmount == 1
MaxIntensity == 2

Points == 0..MaxPoint
Amounts == (0 - MaxAmount)..MaxAmount
\* The integers at which the denoted function is observed: every point a
\* call can name, and one integer on either side of them.
Window == (0 - 1)..(MaxPoint + 1)

\* segments: self.segments.  ref: the reference function run alongside the
\* store, observed on Window.
VARIABLES segments, ref

vars == <<segments, ref>>

Max(a, b) == IF a > b THEN a ELSE b
Min(a, b) == IF a < b THEN a ELSE b

\* list.insert(idx, bp)
InsertAt(segs, idx, bp) ==
    SubSeq(segs, 1, idx) \o <<bp>> \o SubSeq(segs, idx + 1, Len(segs))

----
\* A binary search that drops mid when it moves hi down (hi = mid - 1).
RECURSIVE find_index_loop_short(_, _, _, _)
find_index_loop_short(segs, point, lo, hi) ==
    IF lo < hi
    THEN LET mid == (lo + hi) \div 2
         IN  IF segs[mid + 1][1] < point
             THEN find_index_loop_short(segs, point, mid + 1, hi)
             ELSE find_index_loop_short(segs, point, lo, mid - 1)
    ELSE lo

\* _find_index: the binary search loop, from the state (lo, hi).
RECURSIVE find_index_loop(_, _, _, _)
find_index_loop(segs, point, lo, hi) ==
    IF lo < hi
    THEN LET mid == (lo + hi) \div 2
         IN  IF segs[mid + 1][1] < point
             THEN find_index_loop(segs, point, mid + 1, hi)
             ELSE find_index_loop(segs, point, lo, mid)
    ELSE lo

\* A find_index that moves past a breakpoint equal to point (bisect_right).
find_index_right(segs, point) ==
    LET RECURSIVE loop(_, _)
        loop(lo, hi) ==
            IF lo < hi
            THEN LET mid == (lo + hi) \div 2
                 IN  IF segs[mid + 1][1] <= point
                     THEN loop(mid + 1, hi)
                     ELSE loop(lo, mid)
            ELSE lo
    IN  loop(0, Len(segs))

\* The number of iterations the loop of _find_index makes from (lo, hi),
\* counted up to fuel; -1 when the loop has not ended by then.
RECURSIVE find_index_iterations(_, _, _, _, _)
find_index_iterations(segs, point, lo, hi, fuel) ==
    IF lo < hi
    THEN IF fuel = 0
         THEN 0 - 1
         ELSE LET mid == (lo + hi) \div 2
                  more == IF segs[mid + 1][1] < point
                          THEN find_index_iterations(segs, point, mid + 1, hi,
                                                     fuel - 1)
                          ELSE find_index_iterations(segs, point, lo, mid,
                                                     fuel - 1)
              IN  IF more < 0 THEN more ELSE more + 1
    ELSE 0

find_index(segs, point) ==
    find_index_loop(segs, point, 0, Len(segs))

\* An ensure_point whose new breakpoint always gets intensity 0.
ensure_point_zero(segs, point) ==
    LET idx == find_index(segs, point)
    IN  IF idx < Len(segs) /\ segs[idx + 1][1] = point
        THEN segs
        ELSE InsertAt(segs, idx, <<point, 0>>)

\* An ensure_point that takes the new breakpoint's intensity from the
\* breakpoint after the insertion index instead of the one before it.
ensure_point_next(segs, point) ==
    LET idx == find_index(segs, point)
    IN  IF idx < Len(segs) /\ segs[idx + 1][1] = point
        THEN segs
        ELSE LET value == IF idx = Len(segs) THEN 0 ELSE segs[idx + 1][2]
             IN  InsertAt(segs, idx, <<point, value>>)

ensure_point(segs, point) ==
    LET idx == find_index(segs, point)
    IN  IF idx < Len(segs) /\ segs[idx + 1][1] = point
        THEN segs
        ELSE LET value == IF idx = 0 THEN 0 ELSE segs[idx][2]
             IN  InsertAt(segs, idx, <<point, value>>)

\* An empty-range test that lets from_ = to through.
empty_range_strict(from, to) == from > to

\* The early return of add and set.
empty_range(from, to) == from >= to

----
\* _cleanup_local: the merge loop over start_idx + 1 .. end_idx - 1.
RECURSIVE merge_loop(_, _, _, _)
merge_loop(segs, cleaned, i, end_idx) ==
    IF i < end_idx
    THEN IF cleaned # <<>> /\ cleaned[Len(cleaned)][2] = segs[i + 1][2]
         THEN merge_loop(segs, cleaned, i + 1, end_idx)
         ELSE merge_loop(segs, Append(cleaned, segs[i + 1]), i + 1, end_idx)
    ELSE cleaned

\* "Remove unnecessary leading zeros"
RECURSIVE pop_leading(_)
pop_leading(cleaned) ==
    IF Len(cleaned) > 1 /\ cleaned[1][2] = 0
    THEN pop_leading(Tail(cleaned))
    ELSE cleaned

\* An ending-zeros loop that does not keep the last zero breakpoint.
pop_trailing_all(cleaned) ==
    LET RECURSIVE loop(_)
        loop(c) ==
            IF Len(c) > 0 /\ c[Len(c)][2] = 0
            THEN loop(SubSeq(c, 1, Len(c) - 1))
            ELSE c
    IN  loop(cleaned)

\* "Remove unnecessary ending zeros (keep the last one)"
RECURSIVE pop_trailing(_)
pop_trailing(cleaned) ==
    IF /\ Len(cleaned) > 1
       /\ cleaned[Len(cleaned)][2] = 0
       /\ cleaned[Len(cleaned) - 1][2] = 0
    THEN pop_trailing(SubSeq(cleaned, 1, Len(cleaned) - 1))
    ELSE cleaned

cleanup_local(segs, from, to) ==
    IF segs = <<>>
    THEN segs
    ELSE LET start_idx == Max(find_index(segs, from) - 1, 0)
             end_idx == Min(find_index(segs, to), Len(segs))
             merged == merge_loop(segs, SubSeq(segs, 1, start_idx + 1),
                                  start_idx + 1, end_idx)
             cleaned == merged \o SubSeq(segs, end_idx + 1, Len(segs))
         IN  pop_trailing(pop_leading(cleaned))

----
\* An add loop that also updates the breakpoint at to.
RECURSIVE add_loop_closed(_, _, _, _)
add_loop_closed(segs, idx, to, amount) ==
    IF idx < Len(segs) /\ segs[idx + 1][1] <= to
    THEN add_loop_closed(
             [segs EXCEPT ![idx + 1] = <<@[1], @[2] + amount>>],
             idx + 1, to, amount)
    ELSE segs

\* add: the loop "segments[idx][1] += amount" over the starts below to.
RECURSIVE add_loop(_, _, _, _)
add_loop(segs, idx, to, amount) ==
    IF idx < Len(segs) /\ segs[idx + 1][1] < to
    THEN add_loop([segs EXCEPT ![idx + 1] = <<@[1], @[2] + amount>>],
                  idx + 1, to, amount)
    ELSE segs

\* A set loop that skips the breakpoint at from_.
set_loop_skip(segs, idx, to, amount) ==
    LET RECURSIVE loop(_, _)
        loop(s, i) ==
            IF i < Len(s) /\ s[i + 1][1] < to
            THEN loop([s EXCEPT ![i + 1] = <<@[1], amount>>], i + 1)
            ELSE s
    IN  loop(segs, idx + 1)

\* A set loop that accumulates the amount instead of assigning it.
set_loop_accumulate(segs, idx, to, amount) ==
    LET RECURSIVE loop(_, _)
        loop(s, i) ==
            IF i < Len(s) /\ s[i + 1][1] < to
            THEN loop([s EXCEPT ![i + 1] = <<@[1], @[2] + amount>>], i + 1)
            ELSE s
    IN  loop(segs, idx)

\* set: the loop "segments[idx][1] = amount" over the starts below to.
RECURSIVE set_loop(_, _, _, _)
set_loop(segs, idx, to, amount) ==
    IF idx < Len(segs) /\ segs[idx + 1][1] < to
    THEN set_loop([segs EXCEPT ![idx + 1] = <<@[1], amount>>],
                  idx + 1, to, amount)
    ELSE segs

\* An add that stores a breakpoint for every integer of [from_, to] and
\* does not merge them afterwards.
add_per_point(segs, from, to, amount) ==
    LET RECURSIVE ensure_all(_, _)
        ensure_all(s, x) ==
            IF x > to THEN s ELSE ensure_all(ensure_point(s, x), x + 1)
    IN  IF empty_range(from, to)
        THEN segs
        ELSE LET s2 == ensure_all(segs, from)
             IN  add_loop(s2, find_index(s2, from), to, amount)

\* IntensitySegments.add, as the list it leaves in self.segments.
add(segs, from, to, amount) ==
    IF empty_range(from, to)
    THEN segs
    ELSE LET s1 == ensure_point(segs, from)
             s2 == ensure_point(s1, to)
             s3 == add_loop(s2, find_index(s2, from), to, amount)
         IN  cleanup_local(s3, from, to)

\* IntensitySegments.set, as the list it leaves in self.segments.
set(segs, from, to, amount) ==
    IF empty_range(from, to)
    THEN segs
    ELSE LET s1 == ensure_point(segs, from)
             s2 == ensure_point(s1, to)
             s3 == set_loop(s2, find_index(s2, from), to, amount)
         IN  cleanup_local(s3, from, to)

\* add and set after both _ensure_point calls.
ensured(segs, from, to) ==
    ensure_point(ensure_point(segs, from), to)

\* add up to the call of _cleanup_local: the list after both _ensure_point
\* calls and the update loop.
add_updated(segs, from, to, amount) ==
    LET s2 == ensured(segs, from, to)
    IN  add_loop(s2, find_index(s2, from), to, amount)

\* set up to the call of _cleanup_local.
set_updated(segs, from, to, amount) ==
    LET s2 == ensured(segs, from, to)
    IN  set_loop(s2, find_index(s2, from), to, amount)

----
\* The list accesses of a call.  An access is the pair <<n, i>>: index i
\* (as Python writes it, negative indices counting from the end) read or
\* written on a list of length n.  Each operator below collects the
\* accesses of the code it names, and stops at the first access that is out
\* of range, where Python raises.
IndexOk(access) ==
    0 - access[1] <= access[2] /\ access[2] < access[1]

\* _find_index: segments[mid] in each iteration.
RECURSIVE find_index_reads(_, _, _, _)
find_index_reads(segs, point, lo, hi) ==
    IF lo < hi
    THEN LET mid == (lo + hi) \div 2
             here == <<Len(segs), mid>>
         IN  {here} \cup
             (IF ~IndexOk(here) THEN {}
              ELSE IF segs[mid + 1][1] < point
                   THEN find_index_reads(segs, point, mid + 1, hi)
                   ELSE find_index_reads(segs, point, lo, mid))
    ELSE {}

\* An _ensure_point that reads segments[idx] without testing idx against
\* the list length first.
ensure_point_reads_unguarded(segs, point) ==
    LET idx == find_index(segs, point)
        n == Len(segs)
    IN  find_index_reads(segs, point, 0, n) \cup {<<n, idx>>}
            \cup (IF idx = 0 \/ idx >= n \/ segs[idx + 1][1] = point
                  THEN {} ELSE {<<n, idx - 1>>})

\* _ensure_point: segments[idx] behind "idx < len(self.segments)", and
\* segments[idx - 1] behind "idx == 0".
ensure_point_reads(segs, point) ==
    LET idx == find_index(segs, point)
        n == Len(segs)
    IN  find_index_reads(segs, point, 0, n)
            \cup (IF idx < n THEN {<<n, idx>>} ELSE {})
            \cup (IF idx < n /\ segs[idx + 1][1] = point THEN {}
                  ELSE IF idx = 0 THEN {} ELSE {<<n, idx - 1>>})

\* The update loop of add and of set: segments[idx] in the loop test,
\* behind "idx < len(self.segments)", and again in the loop body.
RECURSIVE update_loop_reads(_, _, _)
update_loop_reads(segs, idx, to) ==
    IF idx < Len(segs)
    THEN {<<Len(segs), idx>>} \cup
         (IF idx >= 0 /\ segs[idx + 1][1] < to
          THEN update_loop_reads(segs, idx + 1, to)
          ELSE {})
    ELSE {}

\* The merge loop of _cleanup_local: cleaned[-1] behind "cleaned and", and
\* self.segments[i].
RECURSIVE merge_loop_reads(_, _, _, _)
merge_loop_reads(segs, cleaned, i, end_idx) ==
    IF i < end_idx
    THEN LET here == <<Len(segs), i>>
         IN  {here}
             \cup (IF cleaned # <<>> THEN {<<Len(cleaned), 0 - 1>>} ELSE {})
             \cup (IF ~IndexOk(here) THEN {}
                   ELSE IF cleaned # <<>>
                           /\ cleaned[Len(cleaned)][2] = segs[i + 1][2]
                        THEN merge_loop_reads(segs, cleaned, i + 1, end_idx)
                        ELSE merge_loop_reads(segs, Append(cleaned, segs[i + 1]),
                                              i + 1, end_idx))
    ELSE {}

\* The leading-zeros loop: cleaned[0] and pop(0) behind "len(cleaned) > 1".
RECURSIVE pop_leading_reads(_)
pop_leading_reads(cleaned) ==
    IF Len(cleaned) > 1
    THEN {<<Len(cleaned), 0>>} \cup
         (IF cleaned[1][2] = 0 THEN pop_leading_reads(Tail(cleaned)) ELSE {})
    ELSE {}

\* The ending-zeros loop: cleaned[-1] and cleaned[-2] behind
\* "len(cleaned) > 1".
RECURSIVE pop_trailing_reads(_)
pop_trailing_reads(cleaned) ==
    IF Len(cleaned) > 1
    THEN {<<Len(cleaned), 0 - 1>>} \cup
         (IF cleaned[Len(cleaned)][2] = 0
          THEN {<<Len(cleaned), 0 - 2>>} \cup
               (IF cleaned[Len(cleaned) - 1][2] = 0
                THEN pop_trailing_reads(SubSeq(cleaned, 1, Len(cleaned) - 1))
                ELSE {})
          ELSE {})
    ELSE {}

cleanup_local_reads(segs, from, to) ==
    IF segs = <<>>
    THEN {}
    ELSE LET start_idx == Max(find_index(segs, from) - 1, 0)
             end_idx == Min(find_index(segs, to), Len(segs))
             merged == merge_loop(segs, SubSeq(segs, 1, start_idx + 1),
                                  start_idx + 1, end_idx)
             cleaned == merged \o SubSeq(segs, end_idx + 1, Len(segs))
         IN  find_index_reads(segs, from, 0, Len(segs))
                 \cup find_index_reads(segs, to, 0, Len(segs))
                 \cup merge_loop_reads(segs, SubSeq(segs, 1, start_idx + 1),
                                       start_idx + 1, end_idx)
                 \cup pop_leading_reads(cleaned)
                 \cup pop_trailing_reads(pop_leading(cleaned))

\* The accesses of add and of set up to the call of _cleanup_local, which
\* are the same in both and do not depend on the amount: none when the
\* call returns early.
update_reads(segs, from, to) ==
    IF empty_range(from, to)
    THEN {}
    ELSE LET s1 == ensure_point(segs, from)
             s2 == ensure_point(s1, to)
         IN  ensure_point_reads(segs, from)
                 \cup ensure_point_reads(s1, to)
                 \cup find_index_reads(s2, from, 0, Len(s2))
                 \cup update_loop_reads(s2, find_index(s2, from), to)

----
\* The function a breakpoint list denotes: the intensity of the last
\* breakpoint with start <= x, or 0 when there is none.
RECURSIVE val_scan(_, _, _)
val_scan(segs, x, i) ==
    IF i = 0 THEN 0
    ELSE IF segs[i][1] <= x THEN segs[i][2]
    ELSE val_scan(segs, x, i - 1)

Val(segs, x) == val_scan(segs, x, Len(segs))

Denoted(segs) == [x \in Window |-> Val(segs, x)]

InBounds(segs) ==
    \A i \in 1..Len(segs) :
        segs[i][2] >= 0 - MaxIntensity /\ segs[i][2] <= MaxIntensity

\* The reference function after a call: the contract of add and set stated
\* pointwise, with no breakpoints.
RefAdd(f, from, to, amount) ==
    [x \in Window |-> IF from <= x /\ x < to THEN f[x] + amount ELSE f[x]]

RefSet(f, from, to, amount) ==
    [x \in Window |-> IF from <= x /\ x < to THEN amount ELSE f[x]]

----
\* __init__: the empty list.
Init ==
    /\ segments = <<>>
    /\ ref = [x \in Window |-> 0]

AddCall(from, to, amount) ==
    /\ LET result == add(segments, from, to, amount)
       IN  InBounds(result) /\ segments' = result
    /\ ref' = IF from < to THEN RefAdd(ref, from, to, amount) ELSE ref

SetCall(from, to, amount) ==
    /\ LET result == set(segments, from, to, amount)
       IN  InBounds(result) /\ segments' = result
    /\ ref' = IF from < to THEN RefSet(ref, from, to, amount) ELSE ref

Next ==
    \/ \E from \in Points, to \in Points, amount \in Amounts :
           AddCall(from, to, amount)
    \/ \E from \in Points, to \in Points, amount \in Amounts :
           SetCall(from, to, amount)

Spec == Init /\ [][Next]_vars

----
\* The one breakpoint list with a breakpoint exactly where the function f
\* changes value, scanning Window upwards from the value 0 to its left.
RECURSIVE minimal_from(_, _, _)
minimal_from(f, x, before) ==
    IF x > MaxPoint + 1
    THEN <<>>
    ELSE (IF f[x] # before THEN << <<x, f[x]>> >> ELSE <<>>)
             \o minimal_from(f, x + 1, f[x])

Minimal(f) == minimal_from(f, 0 - 1, 0)

----
\* C1: in every reachable store, for all from < to and amount, the function
\* denoted after add(from, to, amount) is the previous function plus amount
\* at every x in [from, to) and the previous function at every other x.
AddShiftsRange ==
    \A from \in Points, to \in Points, amount \in Amounts :
        from < to =>
            LET before == Denoted(segments)
                after == Denoted(add(segments, from, to, amount))
            IN  \A x \in Window :
                    after[x] = before[x]
                        + (IF from <= x /\ x < to THEN amount ELSE 0)

\* The second call of test_add_basic on the points 0..3: the store left by
\* add(0, 2, 1), on which add(1, 3, 1) splits at 1, inserts 3 and leaves
\* four breakpoints.
AddShiftsRangeWitness ==
    /\ segments = << <<0, 1>>, <<2, 0>> >>
    /\ add(segments, 1, 3, 1) = << <<0, 1>>, <<1, 2>>, <<2, 1>>, <<3, 0>> >>

\* C2: in every reachable store, for all from < to and amount, the function
\* denoted after set(from, to, amount) is amount at every x in [from, to),
\* whatever it was before, and the previous function at every other x.
SetOverwritesRange ==
    \A from \in Points, to \in Points, amount \in Amounts :
        from < to =>
            LET before == Denoted(segments)
                after == Denoted(set(segments, from, to, amount))
            IN  \A x \in Window :
                    after[x] = IF from <= x /\ x < to THEN amount
                               ELSE before[x]

\* The second call of test_multiple_operations on the points 0..3: the
\* store left by add(0, 3, 1), on which set(1, 2, 2) overwrites the middle
\* of the nonzero stretch.
SetOverwritesRangeWitness ==
    /\ segments = << <<0, 1>>, <<3, 0>> >>
    /\ set(segments, 1, 2, 2) = << <<0, 1>>, <<1, 2>>, <<2, 1>>, <<3, 0>> >>

\* C3: after any sequence of add/set calls from the empty store, no two
\* consecutive stored breakpoints have equal intensity.
NoEqualNeighbours ==
    \A i \in 1..(Len(segments) - 1) : segments[i][2] # segments[i + 1][2]

\* C4: after any sequence of add/set calls from the empty store, a non-empty
\* store's first breakpoint has nonzero intensity.
FirstIsNonzero ==
    segments # <<>> => segments[1][2] # 0

\* C5: after any sequence of add/set calls from the empty store, the stored
\* breakpoints are strictly increasing by start.
StrictlyIncreasing ==
    \A i \in 1..(Len(segments) - 1) : segments[i][1] < segments[i + 1][1]

\* A store left by calls that inserted a breakpoint at every point, each
\* between or beside the ones already stored.
StrictlyIncreasingWitness ==
    /\ Len(segments) = MaxPoint + 1
    /\ \A i \in 1..Len(segments) : segments[i][1] = i - 1

\* C6: in every reachable store, add(a, b, amount) followed at once by
\* add(a, b, -amount) leaves the stored breakpoint sequence exactly as it
\* was before the first call.
AddRoundTrip ==
    \A a \in Points, b \in Points, amount \in Amounts :
        add(add(segments, a, b, amount), a, b, 0 - amount) = segments

\* C7: in every reachable store, for all from >= to and amount, add and set
\* return the stored breakpoint sequence unchanged (both are evaluated in
\* full, so a failing list access would stop the check).
EmptyRangeIsNoOp ==
    \A from \in Points, to \in Points, amount \in Amounts :
        from >= to =>
            /\ add(segments, from, to, amount) = segments
            /\ set(segments, from, to, amount) = segments

\* A store holding several breakpoints on which calls with from_ = to and
\* with from_ > to, over stored and unstored points, return it as it was.
EmptyRangeIsNoOpWitness ==
    /\ segments = << <<0, 1>>, <<2, 2>>, <<3, 0>> >>
    /\ add(segments, 1, 1, 1) = segments
    /\ set(segments, 3, 0, 2) = segments

\* C8: after any sequence of add/set calls, the value the store implies at
\* every point p equals the reference function there: 0, overridden by the
\* latest set covering p, plus every add covering p issued after that set.
MatchesReference ==
    \A p \in Window : Val(segments, p) = ref[p]

\* A set followed by an add that overlaps its right half:
\* set(0, 2, 2) then add(1, 3, -1).
MatchesReferenceWitness ==
    /\ segments = << <<0, 2>>, <<1, 1>>, <<2, 0 - 1>>, <<3, 0>> >>
    /\ ref[0] = 2 /\ ref[1] = 1 /\ ref[2] = 0 - 1 /\ ref[3] = 0

\* C9: the stored sequence is canonical: it is the minimal breakpoint list
\* of the function it denotes (one breakpoint exactly where the value
\* changes), so two call sequences that produce the same function leave
\* identical stores.
StoreIsMinimal ==
    segments = Minimal(Denoted(segments))

\* C10: after any call that leaves the function identically 0, the store is
\* empty; a terminal zero breakpoint remains only while the function is
\* nonzero somewhere.
ZeroFunctionEmptyStore ==
    (\A x \in Window : Val(segments, x) = 0) => segments = <<>>

\* C11: after any sequence of add/set calls, a non-empty store's last
\* breakpoint has intensity 0, so the denoted function is 0 from that
\* start onwards.
LastIsZero ==
    segments # <<>> => segments[Len(segments)][2] = 0

\* A store whose nonzero stretch is closed by the terminal zero breakpoint
\* after a call that brought the breakpoint before it down to 0 as well:
\* add(0, 3, 1) then add(2, 3, -1) leaves zeros at 2 and 3, and only the
\* one at 3 is popped.
LastIsZeroWitness ==
    /\ segments = << <<0, 1>>, <<3, 0>> >>
    /\ add(segments, 2, 3, 0 - 1) = << <<0, 1>>, <<2, 0>> >>

\* C13: in every reachable store, every add or set call leaves at most two
\* breakpoints more than it found, whatever the width of [from, to).
GrowsByAtMostTwo ==
    \A from \in Points, to \in Points, amount \in Amounts :
        /\ Len(add(segments, from, to, amount)) <= Len(segments) + 2
        /\ Len(set(segments, from, to, amount)) <= Len(segments) + 2

\* The store left by add(0, 3, 2): a set strictly inside its only stretch
\* inserts both endpoints and keeps them, while an add over the whole
\* stretch, the widest range there is, inserts nothing.
GrowsByAtMostTwoWitness ==
    /\ segments = << <<0, 2>>, <<3, 0>> >>
    /\ Len(set(segments, 1, 2, 1)) = Len(segments) + 2
    /\ Len(add(segments, 0, 3, 0 - 1)) = Len(segments)

\* Strictly increasing by start.
SortedByStart(segs) ==
    \A i \in 1..(Len(segs) - 1) : segs[i][1] < segs[i + 1][1]

HasStart(segs, point) ==
    \E i \in 1..Len(segs) : segs[i][1] = point

\* The breakpoints of segs that start below point.
Preceding(segs, point) ==
    {i \in 1..Len(segs) : segs[i][1] < point}

\* What _ensure_point(point) has to leave from the sorted list segs.
EnsuredFrom(segs, point, after) ==
    /\ Denoted(after) = Denoted(segs)
    /\ SortedByStart(after)
    /\ HasStart(segs, point) => after = segs
    /\ ~HasStart(segs, point) =>
           LET before == Preceding(segs, point)
               v == IF before = {} THEN 0
                    ELSE segs[CHOOSE i \in before :
                                  \A j \in before : segs[j][1] <= segs[i][1]][2]
           IN  /\ Len(after) = Len(segs) + 1
               /\ \E k \in 1..Len(after) :
                      /\ after[k] = <<point, v>>
                      /\ SubSeq(after, 1, k - 1) = SubSeq(segs, 1, k - 1)
                      /\ SubSeq(after, k + 1, Len(after))
                             = SubSeq(segs, k, Len(segs))

\* C14: on every list _ensure_point is called on (a reachable store, for
\* from_, and the list its first call leaves, for to), which is sorted
\* strictly by start, _ensure_point(point) leaves the denoted function and
\* the sortedness unchanged; it leaves the list itself unchanged if a
\* breakpoint at point exists, and else inserts exactly one breakpoint
\* (point, v), v being the intensity of the breakpoint just before point or
\* 0 if there is none.
EnsurePointKeepsFunction ==
    \A from \in Window, to \in Window :
        LET s1 == ensure_point(segments, from)
        IN  /\ SortedByStart(segments)
            /\ EnsuredFrom(segments, from, s1)
            /\ EnsuredFrom(s1, to, ensure_point(s1, to))

\* A store with a nonzero stretch in which _ensure_point inserts a
\* breakpoint in the middle (inheriting 2), finds an existing one, and
\* inserts one before the first (inheriting 0).
EnsurePointKeepsFunctionWitness ==
    /\ segments = << <<1, 2>>, <<3, 0>> >>
    /\ ensure_point(segments, 2) = << <<1, 2>>, <<2, 2>>, <<3, 0>> >>
    /\ ensure_point(segments, 3) = segments
    /\ ensure_point(segments, 0) = << <<0, 0>>, <<1, 2>>, <<3, 0>> >>

\* The global compaction pass: scanning in ascending order, delete every
\* breakpoint whose intensity equals that of the breakpoint kept before it.
RECURSIVE merge_all(_, _)
merge_all(kept, rest) ==
    IF rest = <<>>
    THEN kept
    ELSE IF kept # <<>> /\ kept[Len(kept)][2] = rest[1][2]
         THEN merge_all(kept, Tail(rest))
         ELSE merge_all(Append(kept, rest[1]), Tail(rest))

\* Then delete the first breakpoint while it is zero-valued.
RECURSIVE trim_leading(_)
trim_leading(segs) ==
    IF segs # <<>> /\ segs[1][2] = 0
    THEN trim_leading(Tail(segs))
    ELSE segs

compact_global(segs) == trim_leading(merge_all(<<>>, segs))

\* Invariants 1-3 of the data model.
Compact(segs) ==
    /\ SortedByStart(segs)
    /\ \A i \in 1..(Len(segs) - 1) : segs[i][2] # segs[i + 1][2]
    /\ segs # <<>> => segs[1][2] # 0

\* C15: for every store that satisfies invariants 1-3 and every add or set
\* with from < to, _cleanup_local(from, to) leaves the list that the global
\* compaction pass leaves from the same updated list.
LocalEqualsGlobal ==
    Compact(segments) =>
        \A from \in Points, to \in Points, amount \in Amounts :
            from < to =>
                LET a == add_updated(segments, from, to, amount)
                    s == set_updated(segments, from, to, amount)
                IN  /\ cleanup_local(a, from, to) = compact_global(a)
                    /\ cleanup_local(s, from, to) = compact_global(s)

\* C16: in every reachable store, two add calls applied in either order
\* leave the same stored breakpoint sequence.
AddCommutes ==
    \A a \in Points, b \in Points, x \in Amounts :
        \A c \in Points, d \in Points, y \in Amounts :
            add(add(segments, a, b, x), c, d, y)
                = add(add(segments, c, d, y), a, b, x)

\* C17: in every reachable store, calling set(from, to, amount) twice in a
\* row leaves the same stored breakpoint sequence as calling it once.
SetIdempotent ==
    \A from \in Points, to \in Points, amount \in Amounts :
        LET once == set(segments, from, to, amount)
        IN  set(once, from, to, amount) = once

\* A store on which set(1, 3, 1) merges its own breakpoints at 1 and 2
\* away, so that the second call has to insert the one at 1 again.
SetIdempotentWitness ==
    /\ segments = << <<0, 1>>, <<1, 2>>, <<2, 1>>, <<3, 0>> >>
    /\ set(segments, 1, 3, 1) = << <<0, 1>>, <<3, 0>> >>

\* idx is the index (0-based) of the first breakpoint of segs whose start
\* is >= point, or Len(segs) when every start is below point.
FirstNotBelow(segs, point, idx) ==
    /\ idx \in 0..Len(segs)
    /\ \A i \in 1..idx : segs[i][1] < point
    /\ \A i \in (idx + 1)..Len(segs) : segs[i][1] >= point

FindIndexOn(segs) ==
    /\ SortedByStart(segs)
    /\ \A point \in Window :
           /\ FirstNotBelow(segs, point, find_index(segs, point))
           /\ find_index_iterations(segs, point, 0, Len(segs), Len(segs))
                  \in 0..Len(segs)

\* C18: on every sorted list _find_index is called on (a reachable store
\* and the lists the two _ensure_point calls leave from it), the loop of
\* _find_index(point) ends within Len iterations and returns the index of
\* the first breakpoint whose start is >= point, the list length when there
\* is none and 0 on the empty list.
FindIndexFindsFirst ==
    /\ FindIndexOn(segments)
    /\ segments = <<>> => \A point \in Window : find_index(segments, point) = 0
    /\ \A from \in Points, to \in Points :
           LET s1 == ensure_point(segments, from)
           IN  FindIndexOn(s1) /\ FindIndexOn(ensure_point(s1, to))

\* A store with a breakpoint at every point: the search returns a middle
\* index for a stored start, 0 below the first start and the list length
\* above the last.
FindIndexFindsFirstWitness ==
    /\ Len(segments) = MaxPoint + 1
    /\ find_index(segments, segments[3][1]) = 2
    /\ find_index(segments, segments[1][1] - 1) = 0
    /\ find_index(segments, segments[Len(segments)][1] + 1) = Len(segments)

\* C12: in every reachable store, for every add and set call, with bounds
\* in any order and on either side of the stored starts, every list index
\* read or written in add, set, _ensure_point, _find_index and
\* _cleanup_local is within the bounds of the list it is applied to.
NoIndexOutOfRange ==
    \A from \in Window, to \in Window :
        /\ \A access \in update_reads(segments, from, to) : IndexOk(access)
        /\ ~empty_range(from, to) =>
               LET s2 == ensured(segments, from, to)
                   idx == find_index(s2, from)
               IN  \A amount \in Amounts :
                       LET added == add_loop(s2, idx, to, amount)
                           assigned == set_loop(s2, idx, to, amount)
                       IN  /\ \A access \in cleanup_local_reads(added, from, to) :
                                  IndexOk(access)
                           /\ \A access \in cleanup_local_reads(assigned, from, to) :
                                  IndexOk(access)

\* A store on which calls read the list at its last index (n - 1, in
\* _ensure_point), at cleaned[-2] and at cleaned[0], and on which a call
\* with reversed bounds reads nothing.
NoIndexOutOfRangeWitness ==
    /\ segments = << <<0, 1>>, <<2, 0>> >>
    /\ <<2, 1>> \in update_reads(segments, 1, 3)
    /\ LET updated == add_updated(segments, 0, 3, 0 - 1)
       IN  /\ <<2, 0 - 2>> \in cleanup_local_reads(updated, 0, 3)
           /\ <<3, 0>> \in cleanup_local_reads(updated, 0, 3)
    /\ update_reads(segments, 3, 0) = {}

====
